---- MODULE Spec2Model ----
(***************************************************************************)
(* Model of the Flask inference service "Monitor dan Logging/7.inference.py" *)
(* : the module-level artifact loader (lines 25-41), the /predict handler   *)
(* (lines 43-66) and the /health handler (lines 68-70).                     *)
(*                                                                          *)
(* The two artifacts are opaque objects of external libraries.  They are    *)
(* modelled by what the handler uses of them:                               *)
(*   - a fitted scaler holds a per-column mean; transform(X) raises a       *)
(*     ValueError when X has another number of columns than the scaler was  *)
(*     fitted on, and otherwise subtracts the mean column by column;        *)
(*   - a classifier holds an input dimension and a bias; predict(X) raises  *)
(*     a ValueError on another number of columns and otherwise returns one  *)
(*     probability, a deterministic function of X.                          *)
(* Both objects define neither __bool__ nor __len__, so a loaded artifact   *)
(* is truthy and `not model` is the same test as `model is None`.           *)
(* Probabilities are counted in tenths: 0 .. MaxProb stands for 0.0 .. 1.0. *)
(* Flask serves requests on several threads (app.run is threaded), so each  *)
(* handler is modelled statement by statement, per thread.                  *)
(***************************************************************************)
EXTENDS Integers, Sequences, FiniteSets, TLC

\* Longest flat features array a client sends.
MaxLen == 3

\* The constant 0.5 of line 59, in tenths.
Threshold == 5

MaxProb == 2 * Threshold

\* Values a feature takes.
FeatureValues == {0, 1}

\* Request threads of the HTTP runtime.
Threads == {"w1", "w2"}

\* Column means of the scaler stored in scaler.pkl, when the file is sound.
FittedMean == <<1, 1>>

\* Python's None, and the artifact objects the files can hold.
None == [type |-> "NoneType", input_dim |-> 0, bias |-> 0, mean |-> <<>>]

Scalers == {[type |-> "Scaler", input_dim |-> 0, bias |-> 0, mean |-> FittedMean]}

\* The second classifier was trained on one more column than the scaler.
Classifiers ==
    {[type |-> "Model", input_dim |-> d, bias |-> Threshold + 1, mean |-> <<>>] :
        d \in {Len(FittedMean), Len(FittedMean) + 1}}

\* What a path holds on disk: nothing, a file whose load raises, or an object.
FileOf(objs) ==
    {[state |-> "missing", obj |-> None], [state |-> "corrupt", obj |-> None]}
        \cup {[state |-> "ok", obj |-> o] : o \in objs}

RECURSIVE SeqsUpTo(_, _)
SeqsUpTo(S, n) ==
    IF n = 0 THEN {<<>>}
    ELSE LET shorter == SeqsUpTo(S, n - 1)
         IN  shorter \cup {Append(s, v) : s \in {q \in shorter : Len(q) = n - 1}, v \in S}

\* Request bodies of POST /predict.  kind "flat": {"features": [v1, ..., vk]};
\* kind "rows": {"features": [[v1, ..., vk]]} (one nested row); "nokey": a JSON
\* object without 'features'; "notobject": a JSON array; "malformed": no JSON.
PredictPayloads ==
    {[kind |-> k, features |-> f] :
        k \in {"flat", "rows"}, f \in SeqsUpTo(FeatureValues, MaxLen)}
    \cup {[kind |-> k, features |-> <<>>] : k \in {"malformed", "notobject", "nokey"}}

HealthRequest == [kind |-> "health", features |-> <<>>]

NoRequest == [kind |-> "none", features |-> <<>>]

\* A local variable of a handler: unbound, or bound to a one-row matrix.
Unbound == [bound |-> FALSE, row |-> <<>>]

Row(r) == [bound |-> TRUE, row |-> r]

NoProb == 0 - 1

\* HTTP responses.
NoResponse ==
    [status |-> 0, error |-> "", prediction_class |-> NoProb,
     prediction_prob |-> NoProb, health |-> "", model_loaded |-> FALSE]

ErrorResponse(code, msg) == [NoResponse EXCEPT !.status = code, !.error = msg]

\* Outcome of a call: a value, or the message of the exception it raised.
Ok(v) == [ok |-> TRUE, val |-> v, msg |-> ""]

Raise(m) == [ok |-> FALSE, val |-> <<>>, msg |-> m]

VARIABLES
    modelFile,       \* what MODEL_PATH holds
    scalerFile,      \* what SCALER_PATH holds
    phase,           \* "loading" | "serving" | "aborted"
    model,           \* global model (line 25)
    scaler,          \* global scaler (line 26)
    pc,              \* per thread: position in the handler
    payload,         \* per thread: the request being (or last) handled
    input_data,      \* per thread: local of predict (line 52)
    scaled_data,     \* per thread: local of predict (line 55)
    prediction_prob, \* per thread: local of predict (line 58)
    calls,           \* per thread: the calls the current request has made
    raised,          \* per thread: message of the exception the request raised
    response         \* per thread: the response returned to the client

vars ==
    <<modelFile, scalerFile, phase, model, scaler, pc, payload, input_data,
      scaled_data, prediction_prob, calls, raised, response>>

globals == <<modelFile, scalerFile, phase, model, scaler>>

----------------------------------------------------------------------------
\* Startup: lines 25-41.

\* One try block around both loads: the first load that raises ends the block.
LoadedModel(mf) == IF mf.state = "ok" THEN mf.obj ELSE None

LoadedScaler(mf, sf) ==
    IF mf.state = "corrupt" THEN None
    ELSE IF sf.state = "ok" THEN sf.obj ELSE None

\* `except Exception` catches every load failure, so the import completes.
PhaseAfterLoad(mf, sf) == "serving"

Init ==
    /\ modelFile \in FileOf(Classifiers)
    /\ scalerFile \in FileOf(Scalers)
    /\ phase = "loading"
    /\ model = None
    /\ scaler = None
    /\ pc = [t \in Threads |-> "idle"]
    /\ payload = [t \in Threads |-> NoRequest]
    /\ input_data = [t \in Threads |-> Unbound]
    /\ scaled_data = [t \in Threads |-> Unbound]
    /\ prediction_prob = [t \in Threads |-> NoProb]
    /\ calls = [t \in Threads |-> {}]
    /\ raised = [t \in Threads |-> ""]
    /\ response = [t \in Threads |-> NoResponse]

LoadArtifacts ==
    /\ phase = "loading"
    /\ model' = LoadedModel(modelFile)
    /\ scaler' = LoadedScaler(modelFile, scalerFile)
    /\ phase' = PhaseAfterLoad(modelFile, scalerFile)
    /\ UNCHANGED <<modelFile, scalerFile, pc, payload, input_data, scaled_data,
                   prediction_prob, calls, raised, response>>

----------------------------------------------------------------------------
\* POST /predict: lines 43-66.

\* Line 45: `not model or not scaler`.
NotInitializedBoth(m, s) == m = None /\ s = None

NotInitialized(m, s) == m = None \/ s = None

UninitializedResponse == ErrorResponse(500, "Model or Scaler not initialized")

\* Lines 49 and 52: request.get_json(force=True), data['features'],
\* np.array(...).reshape(1, -1).  reshape(1, -1) lays every element of the
\* array out in one row, whether the JSON array was flat or nested.
ParseFeaturesTruncated(p) ==
    CASE p.kind = "malformed" -> Raise("400 Bad Request: Failed to decode JSON object")
      [] p.kind = "notobject" -> Raise("list indices must be integers or slices, not str")
      [] p.kind = "nokey"     -> Raise("'features'")
      [] OTHER                ->
            Ok(IF Len(p.features) > Len(scaler.mean)
               THEN SubSeq(p.features, 1, Len(scaler.mean))
               ELSE p.features)

ParseFeatures(p) ==
    CASE p.kind = "malformed" -> Raise("400 Bad Request: Failed to decode JSON object")
      [] p.kind = "notobject" -> Raise("list indices must be integers or slices, not str")
      [] p.kind = "nokey"     -> Raise("'features'")
      [] OTHER                -> Ok(p.features)

\* Line 55: scaler.transform(input_data), the value it returns.
ScalerTransform(s, X) ==
    IF s = None THEN Raise("'NoneType' object has no attribute 'transform'")
    ELSE IF Len(X) # Len(s.mean)
         THEN Raise("X has another number of features than the scaler is expecting")
         ELSE Ok([i \in 1..Len(X) |-> X[i] - s.mean[i]])

\* Line 55: scaler.transform(input_data), the scaler it leaves behind.
ScalerRefit(s, X) ==
    IF s = None \/ Len(X) # Len(s.mean) THEN s ELSE [s EXCEPT !.mean = X]

ScalerAfterTransform(s, X) == s

RECURSIVE SumSeq(_)
SumSeq(X) == IF X = <<>> THEN 0 ELSE Head(X) + SumSeq(Tail(X))

Clamp(v) == IF v < 0 THEN 0 ELSE IF v > MaxProb THEN MaxProb ELSE v

\* Line 58: model.predict(scaled_data), the probability of the one row.
ModelPredict(m, X) ==
    IF m = None THEN Raise("'NoneType' object has no attribute 'predict'")
    ELSE IF Len(X) # m.input_dim
         THEN Raise("Input 0 of layer is incompatible with the layer")
         ELSE Ok(Clamp(m.bias + SumSeq(X)))

\* Line 58 reads the handler's own local scaled_data.
InferInputShared(t) ==
    IF \E u \in Threads \ {t} : scaled_data[u].bound
    THEN (CHOOSE u \in Threads \ {t} : scaled_data[u].bound)
    ELSE t

InferInput(t) == t

\* Line 59: (prediction_prob > 0.5).astype(int)[0][0].
PredictionClassAtLeast(p) == IF p >= Threshold THEN 1 ELSE 0

PredictionClass(p) == IF p > Threshold THEN 1 ELSE 0

\* Lines 61-64: jsonify(...) with the default status 200.
PredictionResponse(p) ==
    [NoResponse EXCEPT !.status = 200,
                       !.prediction_class = PredictionClass(p),
                       !.prediction_prob = p]

\* Lines 65-66: except Exception as e: return jsonify({'error': str(e)}), 400.
ExceptResponseServerError(msg) == ErrorResponse(500, msg)

ExceptResponse(msg) == ErrorResponse(400, msg)

\* GET /health: line 70.
HealthResponseOfBoth ==
    [NoResponse EXCEPT !.status = 200, !.health = "healthy",
                       !.model_loaded = (model # None /\ scaler # None)]

HealthResponseUnavailable ==
    [NoResponse EXCEPT !.status = IF model # None THEN 200 ELSE 503,
                       !.health = IF model # None THEN "healthy" ELSE "unhealthy",
                       !.model_loaded = (model # None)]

HealthResponse ==
    [NoResponse EXCEPT !.status = 200, !.health = "healthy",
                       !.model_loaded = (model # None)]

Accepting(t) == phase = "serving" /\ pc[t] \in {"idle", "done"}

\* The runtime hands a POST /predict request to thread t.
ReceivePredict(t) ==
    /\ Accepting(t)
    /\ \E p \in PredictPayloads : payload' = [payload EXCEPT ![t] = p]
    /\ pc' = [pc EXCEPT ![t] = "check"]
    /\ input_data' = [input_data EXCEPT ![t] = Unbound]
    /\ scaled_data' = [scaled_data EXCEPT ![t] = Unbound]
    /\ prediction_prob' = [prediction_prob EXCEPT ![t] = NoProb]
    /\ calls' = [calls EXCEPT ![t] = {}]
    /\ raised' = [raised EXCEPT ![t] = ""]
    /\ response' = [response EXCEPT ![t] = NoResponse]
    /\ UNCHANGED globals

\* The handler returns resp; its locals go out of scope.
Return(t, resp) ==
    /\ response' = [response EXCEPT ![t] = resp]
    /\ pc' = [pc EXCEPT ![t] = "done"]
    /\ input_data' = [input_data EXCEPT ![t] = Unbound]
    /\ scaled_data' = [scaled_data EXCEPT ![t] = Unbound]
    /\ prediction_prob' = [prediction_prob EXCEPT ![t] = NoProb]

\* Lines 65-66.
Except(t, msg) ==
    /\ raised' = [raised EXCEPT ![t] = msg]
    /\ Return(t, ExceptResponse(msg))

\* Lines 45-46.
CheckInitialized(t) ==
    /\ pc[t] = "check"
    /\ IF NotInitialized(model, scaler)
       THEN Return(t, UninitializedResponse)
       ELSE /\ pc' = [pc EXCEPT ![t] = "parse"]
            /\ UNCHANGED <<input_data, scaled_data, prediction_prob, response>>
    /\ UNCHANGED <<globals, payload, calls, raised>>

\* Lines 49-52.
Parse(t) ==
    /\ pc[t] = "parse"
    /\ calls' = [calls EXCEPT ![t] = @ \cup {"get_json"}]
    /\ LET r == ParseFeatures(payload[t])
       IN  IF r.ok
           THEN /\ input_data' = [input_data EXCEPT ![t] = Row(r.val)]
                /\ pc' = [pc EXCEPT ![t] = "transform"]
                /\ UNCHANGED <<scaled_data, prediction_prob, raised, response>>
           ELSE Except(t, r.msg)
    /\ UNCHANGED <<globals, payload>>

\* Line 55.
Transform(t) ==
    /\ pc[t] = "transform"
    /\ calls' = [calls EXCEPT ![t] = @ \cup {"transform"}]
    /\ scaler' = ScalerAfterTransform(scaler, input_data[t].row)
    /\ LET r == ScalerTransform(scaler, input_data[t].row)
       IN  IF r.ok
           THEN /\ scaled_data' = [scaled_data EXCEPT ![t] = Row(r.val)]
                /\ pc' = [pc EXCEPT ![t] = "infer"]
                /\ UNCHANGED <<input_data, prediction_prob, raised, response>>
           ELSE Except(t, r.msg)
    /\ UNCHANGED <<modelFile, scalerFile, phase, model, payload>>

\* Line 58.
Infer(t) ==
    /\ pc[t] = "infer"
    /\ calls' = [calls EXCEPT ![t] = @ \cup {"predict"}]
    /\ LET r == ModelPredict(model, scaled_data[InferInput(t)].row)
       IN  IF r.ok
           THEN /\ prediction_prob' = [prediction_prob EXCEPT ![t] = r.val]
                /\ pc' = [pc EXCEPT ![t] = "respond"]
                /\ UNCHANGED <<input_data, scaled_data, raised, response>>
           ELSE Except(t, r.msg)
    /\ UNCHANGED <<globals, payload>>

\* Lines 59-64.
Respond(t) ==
    /\ pc[t] = "respond"
    /\ Return(t, PredictionResponse(prediction_prob[t]))
    /\ UNCHANGED <<globals, payload, calls, raised>>

\* Lines 68-70: the whole handler is one statement.
Health(t) ==
    /\ Accepting(t)
    /\ payload' = [payload EXCEPT ![t] = HealthRequest]
    /\ calls' = [calls EXCEPT ![t] = {}]
    /\ raised' = [raised EXCEPT ![t] = ""]
    /\ Return(t, HealthResponse)
    /\ UNCHANGED globals

Next ==
    \/ LoadArtifacts
    \/ \E t \in Threads : ReceivePredict(t)
    \/ \E t \in Threads : CheckInitialized(t)
    \/ \E t \in Threads : Parse(t)
    \/ \E t \in Threads : Transform(t)
    \/ \E t \in Threads : Infer(t)
    \/ \E t \in Threads : Respond(t)
    \/ \E t \in Threads : Health(t)

Spec == Init /\ [][Next]_vars

----------------------------------------------------------------------------
\* Properties.

Done(t) == pc[t] = "done"

IsPredict(t) == payload[t] \in PredictPayloads

IsHealth(t) == payload[t] = HealthRequest

BothLoaded == model # None /\ scaler # None

Sound(f) == f.state = "ok"

\* The response a request with payload p gets when handled alone, start to
\* end, against the loaded artifacts.
Alone(p) ==
    IF p = HealthRequest THEN HealthResponse
    ELSE IF NotInitialized(model, scaler) THEN UninitializedResponse
    ELSE LET a == ParseFeatures(p)
         IN  IF ~a.ok THEN ExceptResponse(a.msg)
             ELSE LET b == ScalerTransform(scaler, a.val)
                  IN  IF ~b.ok THEN ExceptResponse(b.msg)
                      ELSE LET c == ModelPredict(model, b.val)
                           IN  IF ~c.ok THEN ExceptResponse(c.msg)
                               ELSE PredictionResponse(c.val)

\* The message of the first exception the steps of /predict raise on p, or "".
FirstException(p) ==
    LET a == ParseFeatures(p)
    IN  IF ~a.ok THEN a.msg
        ELSE LET b == ScalerTransform(scaler, a.val)
             IN  IF ~b.ok THEN b.msg
                 ELSE ModelPredict(model, b.val).msg

\* The length of the JSON array under 'features', and its number of elements.
ArrayLength(p) == IF p.kind = "rows" THEN 1 ELSE Len(p.features)

ElementCount(p) == Len(p.features)

IsArray(p) == p.kind \in {"flat", "rows"}

\* C1: when the classifier or the scaler is unset after startup, every
\* POST /predict request, whatever its payload, returns 500 with the error
\* "Model or Scaler not initialized", and the request calls neither get_json
\* nor scaler.transform nor model.predict.
C1_UnsetArtifactAlways500 ==
    \A t \in Threads :
        (phase = "serving" /\ IsPredict(t) /\ (model = None \/ scaler = None))
            => /\ calls[t] = {}
               /\ pc[t] \in {"check", "done"}
               /\ Done(t) => response[t] =
                                ErrorResponse(500, "Model or Scaler not initialized")

\* C1 witness: a well-formed request of the right width answered 500 while
\* the classifier is loaded and the scaler is not.
C1_Witness ==
    \E t \in Threads :
        /\ Done(t) /\ payload[t].kind = "flat"
        /\ Len(payload[t].features) = Len(FittedMean)
        /\ model # None /\ scaler = None
        /\ response[t].status = 500

\* C2 (as claimed): /health reports model_loaded = true only when both the
\* classifier and the scaler loaded; in every degraded startup it reports false.
C2_ModelLoadedOnlyIfBoth ==
    \A t \in Threads :
        (Done(t) /\ IsHealth(t) /\ response[t].model_loaded)
            => (Sound(modelFile) /\ Sound(scalerFile))

\* C2 (amended): /health reports model_loaded = true exactly when the
\* classifier was loaded at startup (its file exists and its load did not
\* raise), whatever happened to the scaler.
C2_ModelLoadedIffClassifier ==
    \A t \in Threads :
        (Done(t) /\ IsHealth(t))
            => (response[t].model_loaded <=> Sound(modelFile))

\* C2 witness: /health answered model_loaded = true with the scaler missing.
C2_Witness ==
    \E t \in Threads :
        /\ Done(t) /\ IsHealth(t)
        /\ response[t].model_loaded
        /\ scalerFile.state = "missing"

\* C3 (as claimed): after startup each artifact is set if and only if its own
\* file exists and its own load did not raise, and startup never aborts.
C3_EachArtifactOnItsOwn ==
    phase # "loading"
        => /\ phase = "serving"
           /\ model # None <=> Sound(modelFile)
           /\ scaler # None <=> Sound(scalerFile)

\* C4: a /predict request that raises nothing, with both artifacts loaded,
\* returns 200 with prediction_class in {0,1}, prediction_prob the classifier's
\* output on the scaled features, and prediction_class = 1 exactly when that
\* probability is strictly greater than 0.5.
C4_StrictThreshold ==
    \A t \in Threads :
        (Done(t) /\ IsPredict(t) /\ BothLoaded /\ raised[t] = "")
            => /\ response[t].status = 200
               /\ response[t].error = ""
               /\ response[t].prediction_class \in {0, 1}
               /\ response[t].prediction_prob =
                    ModelPredict(model,
                        ScalerTransform(scaler, payload[t].features).val).val
               /\ response[t].prediction_class = 1
                    <=> response[t].prediction_prob > Threshold

\* C4 witness: a prediction whose probability is exactly 0.5, labelled 0.
C4_Witness ==
    \E t \in Threads :
        /\ Done(t) /\ IsPredict(t)
        /\ response[t].status = 200
        /\ response[t].prediction_prob = Threshold
        /\ response[t].prediction_class = 0

\* C5: with both artifacts loaded, an exception raised at any step of /predict
\* comes back as status 400 with the exception's message, a request that
\* raises nothing comes back as 200, and the thread is ready for the next
\* request.
C5_ExceptionsBecome400 ==
    \A t \in Threads :
        (Done(t) /\ IsPredict(t) /\ BothLoaded)
            => /\ raised[t] = FirstException(payload[t])
               /\ raised[t] # "" => response[t] = ErrorResponse(400, raised[t])
               /\ raised[t] = "" => response[t].status = 200
               /\ Accepting(t)

\* C5 witness: model.predict raised and the request was answered 400, while
\* another request was answered after it on the other thread.
C5_Witness ==
    \E t, u \in Threads :
        /\ t # u
        /\ Done(t) /\ "predict" \in calls[t] /\ response[t].status = 400
        /\ Done(u) /\ IsHealth(u)

C7_SamePayloadSameResponse ==
    \A t, u \in Threads :
        (t # u /\ Done(t) /\ Done(u) /\ IsPredict(t) /\ payload[t] = payload[u])
            => response[t] = response[u]

\* C7 witness: the same feature vector predicted twice.
C7_Witness ==
    \E t, u \in Threads :
        /\ t # u /\ Done(t) /\ Done(u)
        /\ payload[t] = payload[u]
        /\ payload[t].kind = "flat"
        /\ response[t].status = 200 /\ response[u].status = 200

\* C8: /health always answers 200 with status "healthy", in every loader
\* state; an unloaded classifier shows only in model_loaded.
C8_HealthAlwaysHealthy ==
    \A t \in Threads :
        (Done(t) /\ IsHealth(t))
            => /\ response[t].status = 200
               /\ response[t].health = "healthy"
               /\ response[t].error = ""

\* C8 witness: /health answered with the classifier unset, beside a /predict
\* request that failed.
C8_Witness ==
    \E t, u \in Threads :
        /\ Done(t) /\ IsHealth(t) /\ model = None
        /\ ~response[t].model_loaded
        /\ Done(u) /\ IsPredict(u) /\ response[u].status = 500

\* C9: once startup is over, no step of any request changes the classifier
\* or the scaler.
C9_ArtifactsReadOnly ==
    [][phase = "serving" => (model' = model /\ scaler' = scaler)]_vars

\* C9 witness: with both artifacts loaded, one request has succeeded and one
\* has failed.
C9_Witness ==
    \E t, u \in Threads :
        /\ BothLoaded
        /\ Done(t) /\ response[t].status = 200
        /\ Done(u) /\ response[u].status = 400

\* C10: under any interleaving of the handlers' steps, each response equals
\* the response the request gets when it is handled alone.
C10_ResponseAsIfAlone ==
    \A t \in Threads : Done(t) => response[t] = Alone(payload[t])

\* C10 witness: two requests in flight at once, each holding its own, different
\* probability.
C10_Witness ==
    \E t, u \in Threads :
        /\ pc[t] = "respond" /\ pc[u] = "respond"
        /\ prediction_prob[t] # prediction_prob[u]

====
